---- MODULE Spec2Model ----
(***************************************************************************)
(* Dog Vision AI backend: the ModelService engine (model_service.py), the  *)
(* image pre-processing pipeline (image_processor.py) and the FastAPI      *)
(* handlers that compose them (app.py).                                    *)
(*                                                                         *)
(* Python values are modelled as follows.  None is the string "None".  The *)
(* module global model_service is a sequence: <<>> while it is None, and   *)
(* <<self>> once startup_event has constructed the ModelService.  Indices  *)
(* are 0-based as in Python; Nth(s, i) reads a TLA+ sequence at a Python   *)
(* index.  A call's outcome is Return(v) or Raise(exception).              *)
(***************************************************************************)
EXTENDS Integers, Sequences, FiniteSets, TLC

VARIABLES
  model_service,  \* app.py global: <<>> (None) or <<ModelService object>>
  fs,             \* what os.path.exists / load_model find at model_path
  last,           \* the most recent call: operation, inputs, state before, outcome
  load_returned_true, \* history: some load_model call has returned True
  last_load,      \* history: <<>>, or <<what the latest load_model returned>>
  threads         \* where each thread inside load_model or predict stands

vars == <<model_service, fs, last, load_returned_true, last_load, threads>>

----------------------------------------------------------------------------
(* Bounds of the model.                                                    *)

MaxOutLen == 2      \* longest unpadded model output vector
MaxVal == 2         \* output scores are 0..MaxVal steps
ScoreStep == 10003  \* one step of score, in units of 1/100000

----------------------------------------------------------------------------
(* Python helpers.                                                         *)

None == "None"

Return(v) == [kind |-> "return", val |-> v]

Raise(e) == [kind |-> "raise", exc |-> e]

Exception(t, m) == [type |-> t, msg |-> m]

Nth(s, i) == s[i + 1]

Range(s) == {s[k] : k \in 1..Len(s)}

----------------------------------------------------------------------------
(* model_service.py                                                        *)

get_dog_breeds ==
  <<
    "affenpinscher", "afghan_hound", "african_hunting_dog", "airedale",
    "american_staffordshire_terrier", "appenzeller", "australian_terrier",
    "basenji", "basset", "beagle", "bedlington_terrier",
    "bernese_mountain_dog", "black-and-tan_coonhound", "blenheim_spaniel",
    "bloodhound", "bluetick", "border_collie", "border_terrier", "borzoi",
    "boston_bull", "bouvier_des_flandres", "boxer", "brabancon_griffon",
    "briard", "brittany_spaniel", "bull_mastiff", "cairn", "cardigan",
    "chesapeake_bay_retriever", "chihuahua", "chow", "clumber",
    "cocker_spaniel", "collie", "curly-coated_retriever", "dandie_dinmont",
    "dhole", "dingo", "doberman", "english_foxhound", "english_setter",
    "english_springer", "entlebucher", "eskimo_dog", "flat-coated_retriever",
    "french_bulldog", "german_shepherd", "german_short-haired_pointer",
    "giant_schnauzer", "golden_retriever", "gordon_setter", "great_dane",
    "great_pyrenees", "greater_swiss_mountain_dog", "groenendael",
    "ibizan_hound", "irish_setter", "irish_terrier", "irish_water_spaniel",
    "irish_wolfhound", "italian_greyhound", "japanese_spaniel", "keeshond",
    "kelpie", "kerry_blue_terrier", "komondor", "kuvasz",
    "labrador_retriever", "lakeland_terrier", "leonberg", "lhasa",
    "malamute", "malinois", "maltese_dog", "mexican_hairless",
    "miniature_pinscher", "miniature_poodle", "miniature_schnauzer",
    "newfoundland", "norfolk_terrier", "norwegian_elkhound",
    "norwich_terrier", "old_english_sheepdog", "otterhound", "papillon",
    "pekinese", "pembroke", "pomeranian", "pug", "redbone",
    "rhodesian_ridgeback", "rottweiler", "saint_bernard", "saluki",
    "samoyed", "schipperke", "scotch_terrier", "scottish_deerhound",
    "sealyham_terrier", "shetland_sheepdog", "shih-tzu", "siberian_husky",
    "silky_terrier", "soft-coated_wheaten_terrier",
    "staffordshire_bullterrier", "standard_poodle", "standard_schnauzer",
    "sussex_spaniel", "tibetan_mastiff", "tibetan_terrier", "toy_poodle",
    "toy_terrier", "vizsla", "walker_hound", "weimaraner",
    "welsh_springer_spaniel", "west_highland_white_terrier", "whippet",
    "wire-haired_fox_terrier", "yorkshire_terrier", "basenji",
    "bearded_collie", "belgian_malinois", "belgian_sheepdog",
    "belgian_tervuren", "bernese_mountain_dog", "bichon_frise",
    "black_and_tan_coonhound", "bloodhound", "blue_heeler", "border_collie",
    "borzoi", "boston_terrier", "bouvier_des_flandres", "boxer", "briard",
    "brittany", "bull_terrier", "bulldog", "bullmastiff", "cairn_terrier"
  >>

\* ModelService.__init__
ModelService(model_path) ==
  [model_path |-> model_path,
   model      |-> None,
   dog_breeds |-> get_dog_breeds,
   is_loaded  |-> FALSE]

\* The three things load_model can meet at model_path: no file, a file that
\* tf.keras.models.load_model rejects with an exception, a loadable model.
FileStates == {"missing", "corrupt", "keras"}

\* tf.keras.models.load_model(path): the deserialized model, or an exception.
keras_load_model(file) ==
  IF file = "keras" THEN Return("keras_model")
  ELSE Raise(Exception("ValueError", "File format not supported"))

\* load_model setting the flag before it installs the model.
load_step_flag_first(self, step, val) ==
  CASE step = "install" -> [self EXCEPT !.is_loaded = TRUE]
    [] step = "flag"    -> [self EXCEPT !.model = val]
    [] step = "except"  -> [self EXCEPT !.is_loaded = FALSE]

\* The assignments of ModelService.load_model, one at a time: the model is
\* installed, then the flag is set; the except clause clears the flag.
load_step(self, step, val) ==
  CASE step = "install" -> [self EXCEPT !.model = val]
    [] step = "flag"    -> [self EXCEPT !.is_loaded = TRUE]
    [] step = "except"  -> [self EXCEPT !.is_loaded = FALSE]

\* load_model clearing the flag on a missing file as well.
load_model_reset_on_missing(self, file) ==
  LET loaded == keras_load_model(file) IN
  IF file # "missing" /\ loaded.kind = "return"
  THEN <<[self EXCEPT !.model = loaded.val, !.is_loaded = TRUE], Return(TRUE)>>
  ELSE <<[self EXCEPT !.is_loaded = FALSE], Return(FALSE)>>

\* ModelService.load_model: <<self after the call, outcome>>.
load_model(self, file) ==
  IF file = "missing"
  THEN <<self, Return(FALSE)>>
  ELSE LET loaded == keras_load_model(file) IN
       IF loaded.kind = "return"
       THEN <<[self EXCEPT !.model = loaded.val, !.is_loaded = TRUE],
              Return(TRUE)>>
       ELSE <<[self EXCEPT !.is_loaded = FALSE], Return(FALSE)>>

\* argmax keeping the last greatest entry instead of the first.
argmax_last(v) ==
  LET greatest == CHOOSE x \in Range(v) : \A y \in Range(v) : y <= x IN
  CHOOSE i \in 0..(Len(v) - 1) :
    /\ Nth(v, i) = greatest
    /\ \A j \in (i + 1)..(Len(v) - 1) : Nth(v, j) # greatest

\* np.argmax of a non-empty vector: the first index that holds the greatest
\* entry.
argmax(v) ==
  LET greatest == CHOOSE x \in Range(v) : \A y \in Range(v) : y <= x IN
  CHOOSE i \in 0..(Len(v) - 1) :
    /\ Nth(v, i) = greatest
    /\ \A j \in 0..(i - 1) : Nth(v, j) # greatest

\* predict with its guard removed.
not_loaded_unguarded(self) == FALSE

\* The guard that opens ModelService.predict.
not_loaded(self) == ~self.is_loaded \/ self.model = None

\* self.model.predict(image_tensor): fwd is what the loaded model does with
\* the batch (an output vector or an exception); None has no predict.
model_predict(self, fwd) ==
  IF self.model = None
  THEN Raise(Exception("AttributeError",
                       "'NoneType' object has no attribute 'predict'"))
  ELSE fwd

\* The label lookup clamping an index past the vocabulary to its last entry.
breed_name_clamped(self, predicted_class_index) ==
  IF predicted_class_index < Len(self.dog_breeds)
  THEN Nth(self.dog_breeds, predicted_class_index)
  ELSE Nth(self.dog_breeds, Len(self.dog_breeds) - 1)

\* The label lookup of ModelService.predict.
breed_name(self, predicted_class_index) ==
  IF predicted_class_index < Len(self.dog_breeds)
  THEN Nth(self.dog_breeds, predicted_class_index)
  ELSE "unknown_breed_" \o ToString(predicted_class_index)

\* The body of the try block of ModelService.predict.
predict_try(self, fwd) ==
  LET predictions == model_predict(self, fwd) IN
  IF predictions.kind = "raise" THEN predictions
  ELSE IF Len(predictions.val) = 0
  THEN Raise(Exception("ValueError",
                       "attempt to get argmax of an empty sequence"))
  ELSE LET predicted_class_index == argmax(predictions.val)
           confidence == Nth(predictions.val, predicted_class_index)
       IN Return(<<breed_name(self, predicted_class_index), confidence>>)

\* What the guard of ModelService.predict raises.
NotLoadedError ==
  Raise(Exception("RuntimeError", "Model not loaded. Call load_model() first."))

\* The try block of ModelService.predict with its except clause.
predict_after_guard(self, fwd) ==
  LET r == predict_try(self, fwd) IN
  IF r.kind = "raise"
  THEN Raise([type |-> "RuntimeError",
              msg |-> "Error during prediction: " \o r.exc.msg,
              context |-> r.exc])
  ELSE r

\* ModelService.predict: never changes self.
predict(self, fwd) ==
  IF not_loaded(self)
  THEN Raise(Exception("RuntimeError",
                       "Model not loaded. Call load_model() first."))
  ELSE predict_after_guard(self, fwd)

\* ModelService.get_health_status
get_health_status(self) ==
  [model_loaded |-> self.is_loaded,
   model_path   |-> self.model_path,
   num_classes  |-> Len(self.dog_breeds),
   status       |-> IF self.is_loaded THEN "healthy" ELSE "model_not_loaded"]

----------------------------------------------------------------------------
(* image_processor.py                                                      *)
(*                                                                         *)
(* Uploaded bytes are described by what PIL finds in them: the container   *)
(* whose signature they start with ("none" for non-image bytes), whether   *)
(* the header is complete, whether the pixel data after the header is      *)
(* intact, and for a parsable header the colour mode, the size <<width,    *)
(* height>> and the least and greatest 8-bit channel value of the pixels   *)
(* once expanded to RGB.                                                   *)

IMG_SIZE == 224

MaxDim == 300       \* the larger of the two source side lengths tried

Dims == {1, MaxDim}

Levels == {0, 255}

Modes(container) ==
  CASE container = "JPEG" -> {"RGB", "L"}
    [] container = "PNG"  -> {"RGB", "L", "RGBA", "P"}
    [] container = "GIF"  -> {"P"}

EmptyBytes ==
  [len |-> 0, container |-> "none", header |-> "truncated",
   body |-> "truncated", mode |-> None, size |-> <<0, 0>>, lo |-> 0, hi |-> 0]

\* "This is not an image", ten random bytes, ...
GarbageBytes == [EmptyBytes EXCEPT !.len = 10]

\* Bytes that start with a container's signature and stop inside its header.
TruncatedHeader(container) ==
  [EmptyBytes EXCEPT !.len = 4, !.container = container]

\* Bytes with a complete header; the pixel data is intact or cut short.
ImageBytes ==
  UNION {[len : {1024}, container : {c}, header : {"ok"},
          body : {"ok", "truncated"}, mode : Modes(c),
          size : Dims \X Dims, lo : Levels, hi : Levels]
         : c \in {"JPEG", "PNG", "GIF"}}

AllBytes ==
  {EmptyBytes, GarbageBytes}
  \cup {TruncatedHeader(c) : c \in {"JPEG", "PNG"}}
  \cup {b \in ImageBytes : b.lo <= b.hi}

\* PIL Image.open(io.BytesIO(image_bytes)): reads the header only.
Image_open(image_bytes) ==
  IF image_bytes.container = "none" \/ image_bytes.header # "ok"
  THEN Raise(Exception("UnidentifiedImageError",
                       "cannot identify image file"))
  ELSE Return([format |-> image_bytes.container, mode |-> image_bytes.mode,
               size |-> image_bytes.size, body |-> image_bytes.body,
               lo |-> image_bytes.lo, hi |-> image_bytes.hi])

\* PIL image.verify(): PNG walks its chunks and checksums; the other
\* containers have nothing to verify beyond the header.
Image_verify(image) ==
  IF image.format = "PNG" /\ image.body # "ok"
  THEN Raise(Exception("SyntaxError", "broken PNG file"))
  ELSE Return(None)

\* PIL image.load(), run by convert() and by np.array(): decodes the pixels.
Image_load(image) ==
  IF image.body # "ok"
  THEN Raise(Exception("OSError", "image file is truncated"))
  ELSE Return(image)

\* PIL image.convert('RGB')
Image_convert_RGB(image) ==
  LET loaded == Image_load(image) IN
  IF loaded.kind = "raise" THEN loaded
  ELSE Return([image EXCEPT !.mode = "RGB"])

\* np.array(image) followed by tf.constant: height x width (x bands), uint8.
\* Values are fractions num/den; lo and hi bound the numerators.
np_array(image) ==
  LET loaded == Image_load(image)
      hw == <<image.size[2], image.size[1]>>
  IN IF loaded.kind = "raise" THEN loaded
     ELSE Return([shape |-> CASE image.mode = "RGB"  -> hw \o <<3>>
                              [] image.mode = "RGBA" -> hw \o <<4>>
                              [] OTHER               -> hw,
                  dtype |-> "uint8", lo |-> image.lo, hi |-> image.hi,
                  den |-> 1])

\* tf.image.convert_image_dtype(image_tensor, tf.float32): uint8 / 255.
convert_image_dtype(t) ==
  IF t.dtype = "uint8"
  THEN [t EXCEPT !.dtype = "float32", !.den = 255]
  ELSE [t EXCEPT !.dtype = "float32"]

\* tf.image.resize(image_tensor, size=[IMG_SIZE, IMG_SIZE]): bilinear, so
\* every output value lies between the least and greatest input value.
resize(t) ==
  IF Len(t.shape) = 3
  THEN Return([t EXCEPT !.shape = <<IMG_SIZE, IMG_SIZE, t.shape[3]>>,
                        !.dtype = "float32"])
  ELSE Raise(Exception("ValueError",
                       "'images' must have either 3 or 4 dimensions."))

\* process_image_from_bytes without its conversion step.
to_rgb_skipped(image) == Return(image)

\* The conversion step of process_image_from_bytes.
to_rgb(image) ==
  IF image.mode # "RGB" THEN Image_convert_RGB(image) ELSE Return(image)

\* The normalisation step of process_image_from_bytes.
normalize(image_tensor) == convert_image_dtype(image_tensor)

\* process_image_from_bytes
process_image_from_bytes(image_bytes) ==
  LET opened == Image_open(image_bytes) IN
  IF opened.kind = "raise" THEN opened
  ELSE LET rgb == to_rgb(opened.val) IN
       IF rgb.kind = "raise" THEN rgb
       ELSE LET image_array == np_array(rgb.val) IN
            IF image_array.kind = "raise" THEN image_array
            ELSE resize(normalize(image_array.val))

\* prepare_image_for_prediction: tf.expand_dims(image_tensor, axis=0)
prepare_image_for_prediction(image_tensor) ==
  [image_tensor EXCEPT !.shape = <<1>> \o image_tensor.shape]

\* What the try block of validate_image_format does.
validate_try(image_bytes) ==
  LET opened == Image_open(image_bytes) IN
  IF opened.kind = "raise" THEN opened
  ELSE LET verified == Image_verify(opened.val) IN
       IF verified.kind = "raise" THEN verified ELSE Return(TRUE)

\* validate_image_format without its except clause.
validate_image_format_uncaught(image_bytes) == validate_try(image_bytes)

\* validate_image_format: except Exception -> False
validate_image_format(image_bytes) ==
  LET r == validate_try(image_bytes) IN
  IF r.kind = "raise" THEN Return(FALSE) ELSE r

----------------------------------------------------------------------------
(* app.py                                                                  *)

MODEL_PATH == "../20250421-07101745219413-10k-images-mobilenetv2-Adam.keras"

SUPPORTED_FORMATS == {"image/jpeg", "image/jpg", "image/png"}

MAX_FILE_SIZE == 10 * 1024 * 1024

\* raise HTTPException(status_code, detail)
HTTPException(status_code, detail) ==
  [type |-> "HTTPException", status_code |-> status_code, msg |-> detail]

\* What the client receives for a returned body or a raised HTTPException.
Response(status_code, content) ==
  [status_code |-> status_code, content |-> content]

\* {**a, **b}: the keys of b override those of a.
dict_merge(a, b) == b @@ a

\* round(confidence, 4); scores count 1/100000.
round4(confidence) == ((confidence + 5) \div 10) * 10

\* health_check
health_check(ms) ==
  IF ms = <<>>
  THEN Response(503, [status |-> "error",
                      message |-> "Model service not initialized",
                      model_loaded |-> FALSE])
  ELSE LET health_status == get_health_status(ms[1]) IN
       Response(200,
         dict_merge([status |-> IF health_status["model_loaded"]
                                THEN "success" ELSE "warning",
                     message |-> "Service is running"],
                    health_status))

\* The first guard of predict_dog_breed.
service_unavailable(ms) == ms = <<>> \/ ~ms[1].is_loaded

\* predict_dog_breed without its content type guard.
unsupported_format_unchecked(content_type) == FALSE

\* The second guard of predict_dog_breed.
unsupported_format(content_type) == content_type \notin SUPPORTED_FORMATS

\* An outcome together with the core functions called on the way to it.
Traced(out, calls) == [out |-> out, calls |-> calls]

\* predict_dog_breed without its file size check.
too_large_unchecked(file_content) == FALSE

\* The file size check of predict_dog_breed.
too_large(file_content) == file_content.len > MAX_FILE_SIZE

\* The try block of predict_dog_breed.
predict_dog_breed_try(ms, file_content, fwd) ==
  IF too_large(file_content)
  THEN Traced(Raise(HTTPException(400,
                "File too large. Maximum size allowed: 10.0MB")), <<>>)
  ELSE IF ~validate_image_format(file_content).val
  THEN Traced(Raise(HTTPException(400,
                "Invalid image file or corrupted image")),
              <<"validate_image_format">>)
  ELSE LET processed_image == process_image_from_bytes(file_content) IN
       IF processed_image.kind = "raise"
       THEN Traced(processed_image,
                   <<"validate_image_format", "process_image_from_bytes">>)
       ELSE LET image_batch ==
                  prepare_image_for_prediction(processed_image.val)
                prediction == predict(ms[1], fwd)
                calls == <<"validate_image_format",
                           "process_image_from_bytes",
                           "prepare_image_for_prediction", "predict">>
            IN IF prediction.kind = "raise" THEN Traced(prediction, calls)
               ELSE Traced(Return([status |-> "success",
                                   predicted_breed |-> prediction.val[1],
                                   confidence |-> round4(prediction.val[2]),
                                   message |-> "Prediction successful"]),
                           calls)

\* predict_dog_breed without its "except HTTPException: raise" clause.
predict_dog_breed_except_catch_all(r) ==
  IF r.kind = "return" THEN Response(200, r.val)
  ELSE Response(500,
         [detail |-> "Internal server error during prediction: " \o r.exc.msg])

\* The except clauses of predict_dog_breed.
predict_dog_breed_except(r) ==
  IF r.kind = "return" THEN Response(200, r.val)
  ELSE IF r.exc.type = "HTTPException"
  THEN Response(r.exc.status_code, [detail |-> r.exc.msg])
  ELSE Response(500,
         [detail |-> "Internal server error during prediction: " \o r.exc.msg])

\* predict_dog_breed
predict_dog_breed(ms, content_type, file_content, fwd) ==
  IF service_unavailable(ms)
  THEN Traced(Response(503,
         [detail |-> "Model service not available. Please check service health."]),
         <<>>)
  ELSE IF unsupported_format(content_type)
  THEN Traced(Response(400, [detail |-> "Unsupported file format."]), <<>>)
  ELSE LET t == predict_dog_breed_try(ms, file_content, fwd) IN
       Traced(predict_dog_breed_except(t.out), t.calls)

----------------------------------------------------------------------------
(* Inputs.                                                                 *)

Vals == {k * ScoreStep : k \in 0..MaxVal}

\* The output vector of the scenario: [0.1, 0.7, 0.2].
ScenarioOutput == <<10000, 70000, 20000>>

SmallOutputs == UNION {[1..n -> Vals] : n \in 0..MaxOutLen}

\* v behind n zeros: with n near the length of the vocabulary the entries of
\* v sit at its last index, at its length and past it.
Padded(n, v) == [i \in 1..n |-> 0] \o v

Outputs ==
  SmallOutputs
  \cup {Padded(n, v) : v \in SmallOutputs \ {<<>>},
                       n \in {Len(get_dog_breeds) - 1, Len(get_dog_breeds)}}
  \cup {ScenarioOutput}

\* The ways the forward pass of the loaded model can fail.
ForwardErrors ==
  {Raise(Exception("InvalidArgumentError", "incompatible shapes")),
   Raise(Exception("ValueError", ""))}

\* What the forward pass of the loaded model can do with a batch.
ForwardOutcomes == {Return(v) : v \in Outputs} \cup ForwardErrors

\* The forward passes tried behind POST /predict.
RequestForward ==
  {Return(ScenarioOutput), Return(<<>>), Return(<<ScoreStep, ScoreStep>>),
   Return(Padded(Len(get_dog_breeds), <<ScoreStep>>))}
  \cup ForwardErrors

ContentTypes == SUPPORTED_FORMATS \cup {"text/plain", "image/gif"}

\* The uploads sent to POST /predict: one of each sort, and oversized ones.
RequestBytes ==
  LET img(c, m, b) == [len |-> 1024, container |-> c, header |-> "ok",
                       body |-> b, mode |-> m, size |-> <<MaxDim, 1>>,
                       lo |-> 0, hi |-> 255]
  IN {EmptyBytes, GarbageBytes, TruncatedHeader("JPEG"),
      img("JPEG", "RGB", "ok"), img("JPEG", "RGB", "truncated"),
      img("PNG", "RGBA", "ok"), img("PNG", "RGBA", "truncated"),
      img("GIF", "P", "ok"),
      [img("JPEG", "RGB", "ok") EXCEPT !.len = MAX_FILE_SIZE],
      [img("JPEG", "RGB", "ok") EXCEPT !.len = MAX_FILE_SIZE + 1],
      [GarbageBytes EXCEPT !.len = MAX_FILE_SIZE + 1]}

----------------------------------------------------------------------------
(* The state machine: the handlers of app.py, and direct calls of the      *)
(* ModelService methods on the object the application holds.               *)

Predictors == {"p1", "p2"}

\* No thread is inside load_model or predict.
NoThreads ==
  [loader |-> [pc |-> "idle", val |-> None],
   predictors |-> [p \in Predictors |-> [pc |-> "idle", fwd |-> Return(<<>>)]]]

Call(op, handler, arg, ret, calls) ==
  [op |-> op, handler |-> handler, pre |-> model_service,
   arg |-> arg, ret |-> ret, calls |-> calls]

Init ==
  /\ model_service = <<>>
  /\ fs \in FileStates
  /\ last = [op |-> "none", handler |-> "none", pre |-> <<>>,
             arg |-> <<>>, ret |-> <<>>, calls |-> <<>>]
  /\ load_returned_true = FALSE
  /\ last_load = <<>>
  /\ threads = NoThreads

\* startup_event: construct the service and load the model.
Startup ==
  /\ model_service = <<>>
  /\ LET r == load_model(ModelService(MODEL_PATH), fs) IN
       /\ model_service' = <<r[1]>>
       /\ last' = Call("load_model", "startup_event", fs, r[2], <<"load_model">>)
       /\ load_returned_true' = (load_returned_true \/ r[2].val)
       /\ last_load' = <<r[2].val>>
  /\ UNCHANGED <<fs, threads>>

\* model_service.load_model() called again on the live object.
LoadModel ==
  /\ model_service # <<>>
  /\ LET r == load_model(model_service[1], fs) IN
       /\ model_service' = <<r[1]>>
       /\ last' = Call("load_model", "direct", fs, r[2], <<"load_model">>)
       /\ load_returned_true' = (load_returned_true \/ r[2].val)
       /\ last_load' = <<r[2].val>>
  /\ UNCHANGED <<fs, threads>>

\* model_service.predict(image_batch)
Predict ==
  /\ model_service # <<>>
  /\ \E fwd \in ForwardOutcomes :
       last' = Call("predict", "direct", fwd,
                    predict(model_service[1], fwd), <<"predict">>)
  /\ UNCHANGED <<model_service, fs, load_returned_true, last_load, threads>>

\* model_service.get_health_status()
GetHealthStatus ==
  /\ model_service # <<>>
  /\ last' = Call("get_health_status", "direct", <<>>,
                  Return(get_health_status(model_service[1])),
                  <<"get_health_status">>)
  /\ UNCHANGED <<model_service, fs, load_returned_true, last_load, threads>>

\* GET /health
HealthCheck ==
  /\ last' = Call("health_check", "GET /health", <<>>,
                  health_check(model_service),
                  IF model_service = <<>> THEN <<>>
                  ELSE <<"get_health_status">>)
  /\ UNCHANGED <<model_service, fs, load_returned_true, last_load, threads>>

\* POST /predict.  The forward pass is drawn only when the request gets as
\* far as model_service.predict.
PredictDogBreed ==
  /\ \E content_type \in ContentTypes, file_content \in RequestBytes :
       LET any == CHOOSE f \in RequestForward : TRUE
           reached == "predict" \in Range(predict_dog_breed(model_service,
                                     content_type, file_content, any).calls)
       IN \E fwd \in IF reached THEN RequestForward ELSE {any} :
            LET t == predict_dog_breed(model_service, content_type,
                                       file_content, fwd)
            IN last' = Call("predict_dog_breed", "POST /predict",
                            [content_type |-> content_type,
                             file_content |-> file_content,
                             fwd |-> fwd],
                            t.out, t.calls)
  /\ UNCHANGED <<model_service, fs, load_returned_true, last_load, threads>>

\* The model file appears, disappears or is replaced on disk.
FileChange ==
  /\ fs' \in FileStates \ {fs}
  /\ UNCHANGED <<model_service, last, load_returned_true, last_load, threads>>

Next ==
  \/ Startup
  \/ LoadModel
  \/ Predict
  \/ GetHealthStatus
  \/ HealthCheck
  \/ PredictDogBreed
  \/ FileChange

Spec == Init /\ [][Next]_vars

----------------------------------------------------------------------------
(* The image functions on their own: validate_image_format,                *)
(* process_image_from_bytes and prepare_image_for_prediction applied to    *)
(* every kind of upload, beside a service that may or may not have started.*)

\* validate_image_format(image_bytes)
ValidateImageFormat ==
  /\ \E image_bytes \in AllBytes :
       last' = Call("validate_image_format", "direct", image_bytes,
                    validate_image_format(image_bytes),
                    <<"validate_image_format">>)
  /\ UNCHANGED <<model_service, fs, load_returned_true, last_load, threads>>

\* process_image_from_bytes(image_bytes)
ProcessImageFromBytes ==
  /\ \E image_bytes \in AllBytes :
       last' = Call("process_image_from_bytes", "direct", image_bytes,
                    process_image_from_bytes(image_bytes),
                    <<"process_image_from_bytes">>)
  /\ UNCHANGED <<model_service, fs, load_returned_true, last_load, threads>>

\* prepare_image_for_prediction applied to the tensor just decoded.
PrepareImageForPrediction ==
  /\ last.op = "process_image_from_bytes"
  /\ last.ret.kind = "return"
  /\ last' = Call("prepare_image_for_prediction", "direct", last.ret.val,
                  Return(prepare_image_for_prediction(last.ret.val)),
                  <<"prepare_image_for_prediction">>)
  /\ UNCHANGED <<model_service, fs, load_returned_true, last_load, threads>>

NextImage ==
  \/ Startup
  \/ ValidateImageFormat
  \/ ProcessImageFromBytes
  \/ PrepareImageForPrediction

SpecImage == Init /\ [][NextImage]_vars

----------------------------------------------------------------------------
(* load_model and predict statement by statement, run by one loading thread *)
(* and the predicting threads on one shared ModelService object.           *)

\* The forward passes tried by the predicting threads.
ThreadForward == {Return(ScenarioOutput)} \cup ForwardErrors

\* The object exists (startup_event has constructed it); nothing is loaded.
InitConc ==
  /\ model_service = <<ModelService(MODEL_PATH)>>
  /\ fs \in FileStates
  /\ last = [op |-> "none", handler |-> "none", pre |-> <<>>,
             arg |-> <<>>, ret |-> <<>>, calls |-> <<>>]
  /\ load_returned_true = FALSE
  /\ last_load = <<>>
  /\ threads = NoThreads

\* load_model is entered: os.path.exists(self.model_path).
LoadExists ==
  /\ threads.loader.pc = "idle"
  /\ IF fs = "missing"
     THEN /\ last' = Call("load_model", "thread", fs, Return(FALSE),
                          <<"load_model">>)
          /\ last_load' = <<FALSE>>
          /\ UNCHANGED threads
     ELSE /\ threads' = [threads EXCEPT !.loader.pc = "deserialize"]
          /\ UNCHANGED <<last, last_load>>
  /\ UNCHANGED <<model_service, fs, load_returned_true>>

\* self.model = tf.keras.models.load_model(self.model_path)
LoadDeserialize ==
  /\ threads.loader.pc = "deserialize"
  /\ LET loaded == keras_load_model(fs) IN
       IF loaded.kind = "return"
       THEN /\ model_service' =
                 <<load_step(model_service[1], "install", loaded.val)>>
            /\ threads' = [threads EXCEPT !.loader =
                             [pc |-> "flag", val |-> loaded.val]]
       ELSE /\ threads' = [threads EXCEPT !.loader.pc = "except"]
            /\ UNCHANGED model_service
  /\ UNCHANGED <<fs, last, load_returned_true, last_load>>

\* self.is_loaded = True; return True
LoadSetFlag ==
  /\ threads.loader.pc = "flag"
  /\ model_service' =
       <<load_step(model_service[1], "flag", threads.loader.val)>>
  /\ threads' = [threads EXCEPT !.loader = NoThreads.loader]
  /\ last' = Call("load_model", "thread", fs, Return(TRUE), <<"load_model">>)
  /\ load_returned_true' = TRUE
  /\ last_load' = <<TRUE>>
  /\ UNCHANGED fs

\* except Exception: self.is_loaded = False; return False
LoadExcept ==
  /\ threads.loader.pc = "except"
  /\ model_service' = <<load_step(model_service[1], "except", None)>>
  /\ threads' = [threads EXCEPT !.loader = NoThreads.loader]
  /\ last' = Call("load_model", "thread", fs, Return(FALSE), <<"load_model">>)
  /\ last_load' = <<FALSE>>
  /\ UNCHANGED <<fs, load_returned_true>>

\* predict is entered: the first half of its guard, not self.is_loaded.
PredictGuardFlag(p) ==
  /\ threads.predictors[p].pc = "idle"
  /\ \E fwd \in ThreadForward :
       IF ~model_service[1].is_loaded
       THEN /\ last' = Call("predict", "thread", fwd, NotLoadedError,
                            <<"predict">>)
            /\ UNCHANGED threads
       ELSE /\ threads' = [threads EXCEPT !.predictors[p] =
                             [pc |-> "guard_model", fwd |-> fwd]]
            /\ UNCHANGED last
  /\ UNCHANGED <<model_service, fs, load_returned_true, last_load>>

\* The second half of the guard: self.model is None.
PredictGuardModel(p) ==
  /\ threads.predictors[p].pc = "guard_model"
  /\ IF model_service[1].model = None
     THEN /\ last' = Call("predict", "thread", threads.predictors[p].fwd,
                          NotLoadedError, <<"predict">>)
          /\ threads' = [threads EXCEPT !.predictors[p] =
                           NoThreads.predictors[p]]
     ELSE /\ threads' = [threads EXCEPT !.predictors[p].pc = "forward"]
          /\ UNCHANGED last
  /\ UNCHANGED <<model_service, fs, load_returned_true, last_load>>

\* The try block: self.model.predict(image_tensor) and what follows it.
PredictForward(p) ==
  /\ threads.predictors[p].pc = "forward"
  /\ last' = Call("predict", "thread", threads.predictors[p].fwd,
                  predict_after_guard(model_service[1],
                                      threads.predictors[p].fwd),
                  <<"predict">>)
  /\ threads' = [threads EXCEPT !.predictors[p] = NoThreads.predictors[p]]
  /\ UNCHANGED <<model_service, fs, load_returned_true, last_load>>

NextConc ==
  \/ LoadExists
  \/ LoadDeserialize
  \/ LoadSetFlag
  \/ LoadExcept
  \/ \E p \in Predictors : PredictGuardFlag(p)
  \/ \E p \in Predictors : PredictGuardModel(p)
  \/ \E p \in Predictors : PredictForward(p)
  \/ FileChange

SpecConc == InitConc /\ [][NextConc]_vars

----------------------------------------------------------------------------
(* Properties.                                                             *)

\* C1: while no load_model call has returned True (none made, or all failed),
\* every predict call raises the not-loaded error and returns no (label,
\* confidence); predict leaves the service as it found it, so it loads
\* nothing; and POST /predict answers 503 without calling the core.
C1_PredictBeforeLoadFails ==
  ~load_returned_true =>
    /\ last.op = "predict" =>
         /\ last.ret = NotLoadedError
         /\ model_service = last.pre
         /\ last.calls = <<"predict">>
    /\ last.op = "predict_dog_breed" =>
         /\ last.ret.status_code = 503
         /\ last.calls = <<>>
         /\ model_service = last.pre

\* C1 witness: predict was called after a load that failed, with a forward
\* pass that would have produced the scenario's output.
C1_Witness ==
  /\ ~load_returned_true
  /\ last.op = "predict"
  /\ last.pre # <<>>
  /\ last.arg = Return(ScenarioOutput)

Loaded == model_service # <<>> /\ model_service[1].is_loaded

\* C2 as claimed: once is_loaded is True no step makes it False again.
C2_LoadedForever == [][Loaded => Loaded']_vars

\* C2 amended: once is_loaded is True, predict, the health status and every
\* load_model call that returns True or finds the model file missing leave
\* it True; the only step that clears it is a load_model call in which
\* deserialization raises.
C2_LoadedUntilLoadRaises ==
  [][(Loaded /\ ~Loaded') =>
       /\ last'.op = "load_model"
       /\ last'.pre = model_service
       /\ last'.arg = "corrupt"
       /\ last'.ret = Return(FALSE)]_vars

\* C2 witness: a load_model call on a loaded engine failed (file missing) and
\* the engine is still loaded.
C2_Witness ==
  /\ last.op = "load_model"
  /\ last.pre # <<>>
  /\ last.pre[1].is_loaded
  /\ last.ret = Return(FALSE)
  /\ Loaded

\* C3 as claimed: load_model never raises, and right after a call that
\* returned False the flag is False and no model is installed, whatever state
\* the call started in.
C3_FailedLoadLeavesUnloaded ==
  last.op = "load_model" =>
    /\ last.ret.kind = "return"
    /\ last.ret.val = FALSE =>
         /\ ~model_service[1].is_loaded
         /\ model_service[1].model = None

\* C4 as claimed: get_health_status returns (it never raises) and reports the
\* outcome of the latest load_model call: loaded and healthy after True, not
\* loaded and model_not_loaded after False or before any load.
C4_HealthReflectsLastLoad ==
  last.op = "get_health_status" =>
    /\ last.ret.kind = "return"
    /\ IF last_load = <<TRUE>>
       THEN /\ last.ret.val.model_loaded
            /\ last.ret.val.status = "healthy"
       ELSE /\ ~last.ret.val.model_loaded
            /\ last.ret.val.status = "model_not_loaded"

\* The latest call was predict on a loaded engine whose forward pass returned
\* a non-empty output vector.
PredictedOnLoaded ==
  /\ last.op = "predict"
  /\ last.pre[1].is_loaded
  /\ last.pre[1].model # None
  /\ last.arg.kind = "return"
  /\ Len(last.arg.val) > 0

\* i is the first index of v that holds the maximum of v.
IsFirstMax(v, i) ==
  /\ \A j \in 0..(Len(v) - 1) : Nth(v, j) <= Nth(v, i)
  /\ \A j \in 0..(i - 1) : Nth(v, j) < Nth(v, i)

\* C5: on a loaded engine, when the first maximal index i of the output vector
\* is inside the vocabulary, predict returns (vocabulary[i], output[i]).
C5_PredictReturnsArgmaxLabel ==
  PredictedOnLoaded =>
    \A i \in 0..(Len(last.arg.val) - 1) :
      (IsFirstMax(last.arg.val, i) /\ i < Len(get_dog_breeds)) =>
        last.ret = Return(<<Nth(get_dog_breeds, i), Nth(last.arg.val, i)>>)

\* C5 witness: the scenario's output [0.1, 0.7, 0.2] yields the vocabulary's
\* entry 1 with confidence 0.7.
C5_Witness ==
  /\ PredictedOnLoaded
  /\ last.arg.val = ScenarioOutput
  /\ last.ret = Return(<<Nth(get_dog_breeds, 1), 70000>>)

\* The string t occurs in the string s.
Contains(s, t) ==
  \E k \in 1..(Len(s) - Len(t) + 1) : SubSeq(s, k, k + Len(t) - 1) = t

\* C6: on a loaded engine, when the first maximal index i of the output vector
\* is the vocabulary's length or more, predict raises nothing and returns a
\* label that contains i in decimal and equals no vocabulary entry, with
\* output[i] as confidence.
C6_OutOfVocabularyLabel ==
  PredictedOnLoaded =>
    \A i \in 0..(Len(last.arg.val) - 1) :
      (IsFirstMax(last.arg.val, i) /\ i >= Len(get_dog_breeds)) =>
        /\ last.ret.kind = "return"
        /\ Contains(last.ret.val[1], ToString(i))
        /\ last.ret.val[1] \notin Range(get_dog_breeds)
        /\ last.ret.val[2] = Nth(last.arg.val, i)

\* C6 witness: the greatest entry sits exactly at index == vocabulary length.
C6_Witness ==
  /\ PredictedOnLoaded
  /\ Len(last.arg.val) > Len(get_dog_breeds)
  /\ IsFirstMax(last.arg.val, Len(get_dog_breeds))
  /\ last.ret.kind = "return"
  /\ last.ret.val[1] = "unknown_breed_141"

\* The exception types process_image_from_bytes raises on undecodable bytes.
DecodeErrorKinds ==
  {process_image_from_bytes(b).exc.type :
     b \in {x \in AllBytes : process_image_from_bytes(x).kind = "raise"}}

\* C7 as claimed: a failure of the model computation in a loaded engine is
\* raised with the original cause attached and under a kind that is neither
\* the kind of the not-loaded error nor a kind of decode error, and the
\* not-loaded error is no decode error either.
C7_ErrorKindsDistinct ==
  /\ NotLoadedError.exc.type \notin DecodeErrorKinds
  /\ (last.op = "predict" /\ last.ret.kind = "raise") =>
       IF last.pre[1].is_loaded /\ last.pre[1].model # None
       THEN /\ last.arg.kind = "raise" => last.ret.exc.context = last.arg.exc
            /\ last.ret.exc.type # NotLoadedError.exc.type
            /\ last.ret.exc.type \notin DecodeErrorKinds
       ELSE last.ret = NotLoadedError

\* C8: validate_image_format returns a boolean for every byte sequence and
\* never raises: False for empty bytes, for bytes that are no image and for
\* a header cut short, True for well-formed JPEG and PNG bytes; and it leaves
\* the service as it found it.
C8_ProbeIsTotal ==
  last.op = "validate_image_format" =>
    /\ last.ret.kind = "return"
    /\ last.ret.val \in BOOLEAN
    /\ (last.arg.len = 0 \/ last.arg.container = "none"
        \/ last.arg.header # "ok") => last.ret.val = FALSE
    /\ (last.arg.container \in {"JPEG", "PNG"} /\ last.arg.header = "ok"
        /\ last.arg.body = "ok") => last.ret.val = TRUE
    /\ model_service = last.pre

\* C8 witness: the probe answered False on a JPEG header cut short, beside a
\* started service.
C8_Witness ==
  /\ last.op = "validate_image_format"
  /\ last.arg = TruncatedHeader("JPEG")
  /\ last.ret = Return(FALSE)
  /\ model_service # <<>>

\* The latest call was POST /predict with a content type outside
\* SUPPORTED_FORMATS.
UnsupportedRequest ==
  /\ last.op = "predict_dog_breed"
  /\ last.arg.content_type \notin {"image/jpeg", "image/jpg", "image/png"}

\* C9 as claimed: a POST /predict whose content type is not supported is
\* answered with 400 in every state of the service.
C9_UnsupportedTypeIs400 ==
  UnsupportedRequest => last.ret.status_code = 400

\* C9 amended: a POST /predict whose content type is not supported is
\* answered with 400 whenever the service is initialised and its model is
\* loaded, and with 503 otherwise.
C9_UnsupportedTypeIs400WhenLoaded ==
  UnsupportedRequest =>
    last.ret.status_code =
      IF last.pre # <<>> /\ last.pre[1].is_loaded THEN 400 ELSE 503

\* C9 witness: a text/plain upload carrying a well-formed JPEG was answered
\* with 400 by a loaded service.
C9_Witness ==
  /\ UnsupportedRequest
  /\ last.arg.content_type = "text/plain"
  /\ last.arg.file_content.container = "JPEG"
  /\ last.arg.file_content.body = "ok"
  /\ last.pre # <<>>
  /\ last.pre[1].is_loaded
  /\ last.ret.status_code = 400

\* C10: process_image_from_bytes decodes every intact image, whatever its
\* mode and size, into a float tensor of shape (224, 224, 3) with every value
\* in [0, 1]; prepare_image_for_prediction turns it into shape
\* (1, 224, 224, 3).
C10_DecodedShapeAndRange ==
  /\ last.op = "process_image_from_bytes" =>
       /\ (last.arg.header = "ok" /\ last.arg.body = "ok") =>
            last.ret.kind = "return"
       /\ last.ret.kind = "return" =>
            /\ last.ret.val.shape = <<224, 224, 3>>
            /\ last.ret.val.dtype = "float32"
            /\ 0 <= last.ret.val.lo
            /\ last.ret.val.lo <= last.ret.val.hi
            /\ last.ret.val.hi <= last.ret.val.den
  /\ last.op = "prepare_image_for_prediction" =>
       /\ last.arg.shape = <<224, 224, 3>>
       /\ last.ret.val.shape = <<1, 224, 224, 3>>
       /\ last.ret.val.lo = last.arg.lo
       /\ last.ret.val.hi = last.arg.hi

\* C10 witness: a grayscale image 1 wide and MaxDim high, with pixels from
\* black to white, was decoded.
C10_Witness ==
  /\ last.op = "process_image_from_bytes"
  /\ last.arg.mode = "L"
  /\ last.arg.size = <<1, MaxDim>>
  /\ last.arg.lo = 0
  /\ last.arg.hi = 255
  /\ last.ret.kind = "return"

\* The latest call was POST /predict and the request fails a request-layer
\* guard other than the first: content type, size, or probe.
RejectedRequest ==
  /\ last.op = "predict_dog_breed"
  /\ \/ last.arg.content_type \notin {"image/jpeg", "image/jpg", "image/png"}
     \/ last.arg.file_content.len > 10 * 1024 * 1024
     \/ ~validate_image_format(last.arg.file_content).val

\* What C11 says of the guards themselves: decode and predict run only
\* behind a loaded model, a supported content type, a size of at most
\* MAX_FILE_SIZE and a true probe, checked in that order (the probe is not
\* even called for a request one of the earlier guards rejects), and a
\* rejected request reaches neither decode nor predict.
GuardsBeforeCore ==
  last.op = "predict_dog_breed" =>
    /\ ("process_image_from_bytes" \in Range(last.calls)
        \/ "predict" \in Range(last.calls)) =>
         /\ last.pre # <<>>
         /\ last.pre[1].is_loaded
         /\ ~RejectedRequest
         /\ last.calls[1] = "validate_image_format"
         /\ last.calls[2] = "process_image_from_bytes"
    /\ (last.pre = <<>> \/ ~last.pre[1].is_loaded) =>
         last.ret.status_code = 503 /\ last.calls = <<>>
    /\ (last.arg.content_type \notin {"image/jpeg", "image/jpg", "image/png"}
        \/ last.arg.file_content.len > 10 * 1024 * 1024) =>
         last.calls = <<>>
    /\ RejectedRequest =>
         /\ "process_image_from_bytes" \notin Range(last.calls)
         /\ "predict" \notin Range(last.calls)

\* C11 as claimed: the guards come before the core, and every request with an
\* unsupported content type, an oversized body or bytes that fail the probe
\* is answered with 400.
C11_RejectedIs400 ==
  /\ GuardsBeforeCore
  /\ RejectedRequest => last.ret.status_code = 400

\* C11 amended: the guards come before the core, and a request with an
\* unsupported content type, an oversized body or bytes that fail the probe
\* is answered with 400 when the service is initialised and its model is
\* loaded, and with 503 otherwise.
C11_RejectedIs400WhenLoaded ==
  /\ GuardsBeforeCore
  /\ RejectedRequest =>
       last.ret.status_code =
         IF last.pre # <<>> /\ last.pre[1].is_loaded THEN 400 ELSE 503

\* C11 witness: a loaded service answered 400 to an oversized, well-formed
\* JPEG sent as image/jpeg, without calling the core.
C11_Witness ==
  /\ last.op = "predict_dog_breed"
  /\ last.pre # <<>>
  /\ last.pre[1].is_loaded
  /\ last.arg.content_type = "image/jpeg"
  /\ last.arg.file_content.len > 10 * 1024 * 1024
  /\ last.arg.file_content.container = "JPEG"
  /\ last.arg.file_content.body = "ok"
  /\ last.ret.status_code = 400
  /\ last.calls = <<>>

\* C12: however the statements of a load_model call interleave with those of
\* concurrent predict calls, is_loaded = True implies that a model is
\* installed; a predict that has passed its guard finds a model when it runs
\* the forward pass, and so never fails on a missing model.
C12_NoHalfInitializedHandle ==
  /\ model_service[1].is_loaded => model_service[1].model # None
  /\ \A p \in Predictors :
       threads.predictors[p].pc = "forward" => model_service[1].model # None
  /\ (last.op = "predict" /\ last.handler = "thread"
      /\ last.ret.kind = "raise" /\ last.ret # NotLoadedError) =>
       last.ret.exc.context.type # "AttributeError"

\* C12 witness: a load_model call stands between installing the model and
\* setting the flag while a predict call that passed the guard is about to
\* run its forward pass.
C12_Witness ==
  /\ threads.loader.pc = "flag"
  /\ \E p \in Predictors : threads.predictors[p].pc = "forward"

\* C13 as claimed: GET /health answers 503 with status "error" and
\* model_loaded False while the service is not initialised; once it is, the
\* "status" field is "success" if the model is loaded and "warning" if not.
C13_HealthStatusField ==
  last.op = "health_check" =>
    IF last.pre = <<>>
    THEN /\ last.ret.status_code = 503
         /\ last.ret.content.status = "error"
         /\ last.ret.content.model_loaded = FALSE
    ELSE /\ last.ret.status_code = 200
         /\ last.ret.content.status =
              IF last.pre[1].is_loaded THEN "success" ELSE "warning"

\* The latest call was POST /predict on a loaded service with a supported
\* content type: the request entered the try block.
EnteredTry ==
  /\ last.op = "predict_dog_breed"
  /\ last.pre # <<>>
  /\ last.pre[1].is_loaded
  /\ last.arg.content_type \in {"image/jpeg", "image/jpg", "image/png"}

\* C14: every POST /predict ends in 200 with predicted_breed and confidence
\* (the confidence rounded to four decimals), or in 503, 400 or 500 with a
\* detail.  Inside the try block an oversized file or a failed probe stays a
\* 400; an exception of decode or predict becomes a 500; nothing else comes
\* out.
C14_OneMappedOutcome ==
  last.op = "predict_dog_breed" =>
    /\ last.ret.status_code \in {200, 503, 400, 500}
    /\ last.ret.status_code = 200 =>
         /\ DOMAIN last.ret.content =
              {"status", "predicted_breed", "confidence", "message"}
         /\ last.arg.fwd.kind = "return"
         /\ last.ret.content.predicted_breed \in
              Range(get_dog_breeds) \cup
              {"unknown_breed_" \o ToString(i) :
                 i \in 0..(Len(last.arg.fwd.val) - 1)}
         /\ last.ret.content.confidence \in Range(last.arg.fwd.val) \/
              \E c \in Range(last.arg.fwd.val) :
                /\ last.ret.content.confidence % 10 = 0
                /\ last.ret.content.confidence - c \in -5..5
    /\ last.ret.status_code # 200 => DOMAIN last.ret.content = {"detail"}
    /\ EnteredTry =>
         last.ret.status_code =
           IF \/ last.arg.file_content.len > 10 * 1024 * 1024
              \/ ~validate_image_format(last.arg.file_content).val
           THEN 400
           ELSE IF \/ process_image_from_bytes(last.arg.file_content).kind
                      = "raise"
                   \/ last.arg.fwd.kind = "raise"
                   \/ last.arg.fwd.val = <<>>
           THEN 500
           ELSE 200
    /\ ~EnteredTry =>
         last.ret.status_code =
           IF last.pre = <<>> \/ ~last.pre[1].is_loaded THEN 503 ELSE 400

\* C14 witness: bytes that are no image, sent as image/png to a loaded
\* service, failed the probe inside the try block and came out as 400.
C14_Witness ==
  /\ EnteredTry
  /\ last.arg.file_content = GarbageBytes
  /\ last.calls = <<"validate_image_format">>
  /\ last.ret.status_code = 400

====
